---------------------------- MODULE Spec2Model ----------------------------
(***************************************************************************)
(* Model of the calendar service: the ICS renderer (src/src/ics.py) and   *)
(* the feed endpoint with its persistence (src/app.py, src/src/models.py,  *)
(* src/src/db.py).                                                         *)
(*                                                                         *)
(* Text is a sequence of one-character strings.  Each part of the program  *)
(* has its own specification over its own variables; the variables of the  *)
(* other parts stay at their initial value.                                *)
(*   SpecEscape   _escape_ical_text on bounded texts                       *)
(*   SpecFold     _fold_ical_line, its while loop taken step by step       *)
(*   SpecEvent    one stored row through the adapter and the renderer       *)
(*   SpecRender   render_calendar_ics on bounded sequences of events       *)
(*   SpecRequest  one feed request, of any shape, against a stored table    *)
(*   Spec         the table under create/patch/delete, with feed requests   *)
(*   SpecEmit     one row with each optional column None, empty or filled  *)
(*   SpecPatch    CalendarEvent.apply_patch on a stored record              *)
(*   SpecDb       get_engine and get_session (src/src/db.py) in threads     *)
(***************************************************************************)
EXTENDS Integers, Sequences, FiniteSets, TLC

VARIABLES
    escValue,    \* _escape_ical_text: the argument `value`
    escResult,   \* _escape_ical_text: the returned text, NotRun before the call
    foldInput,   \* _fold_ical_line: the argument `line`
    foldLine,    \* _fold_ical_line: the local `line`, rebound by the loop
    foldOut,     \* _fold_ical_line: the list `out`
    foldPc,      \* _fold_ical_line: "start", "loop" or "done"
    foldResult,  \* _fold_ical_line: the returned text, NotRun before the return
    evRow,       \* the stored row handed to calendar_event_to_ics_event
    evDoc,       \* the document rendered from that one row, or RaisedDoc
    calEvents,   \* render_calendar_ics: the argument `events`
    calDoc,      \* render_calendar_ics: the returned document
    rqTable,     \* SpecRequest: the rows of calendar_events
    rqRequest,   \* SpecRequest: the request (path, query string, If-None-Match)
    rqResponse,  \* SpecRequest: the response to it
    table,       \* the rows of calendar_events
    clock,       \* the current instant, in ticks
    nextId,      \* the next fresh event id (uuid4)
    prevFetch,   \* what the feed request before the last one fetched and computed
    lastFetch,   \* what the last feed request fetched and computed
    lastResponse, \* the response to the last request
    redirects,   \* how many 302s in a row the client has been given
    patchEvent,  \* apply_patch: the record before the patch
    patchPayload, \* apply_patch: the payload
    patchResult, \* apply_patch: the record after the patch, and whether it raised
    dbEngine,    \* src/db.py: the global _ENGINE
    dbSessionLocal, \* src/db.py: the global _SessionLocal
    dbRequest    \* the requests in flight, one per thread: where each one is

escVars == <<escValue, escResult>>
foldVars == <<foldInput, foldLine, foldOut, foldPc, foldResult>>
evVars == <<evRow, evDoc>>
calVars == <<calEvents, calDoc>>
rqVars == <<rqTable, rqRequest, rqResponse>>
feedVars == <<table, clock, nextId, prevFetch, lastFetch, lastResponse, redirects>>
patchVars == <<patchEvent, patchPayload, patchResult>>
dbVars == <<dbEngine, dbSessionLocal, dbRequest>>
vars == <<escVars, foldVars, evVars, calVars, rqVars, feedVars, patchVars, dbVars>>

NotRun == <<"NotRun">>

\* ------------------------------------------------------------------ bounds
MaxTextLen == 3
MaxLineLen == 160
LongTextLen == 80
MaxEvents == 3
MaxRows == 3
MaxArgs == 2
MaxClock == 6
MaxIds == 3
RequestNow == 9
MaxThreads == 2

\* -------------------------------------------------------------- characters
BSL == "\\"
CR == "\r"
LF == "\n"
SP == " "
CRLF == <<CR, LF>>

RECURSIVE Concat(_)
\* The concatenation of a sequence of texts (halving, to keep the evaluation
\* shallow on long sequences).
Concat(ss) ==
    IF Len(ss) = 0 THEN <<>>
    ELSE IF Len(ss) = 1 THEN ss[1]
    ELSE LET h == Len(ss) \div 2
         IN  Concat(SubSeq(ss, 1, h)) \o Concat(SubSeq(ss, h + 1, Len(ss)))

\* sep.join(parts)
Join(sep, parts) ==
    Concat([i \in 1..(2 * Len(parts) - 1) |->
               IF i % 2 = 1 THEN parts[(i + 1) \div 2] ELSE sep])

StartsWith(s, p) == Len(s) >= Len(p) /\ SubSeq(s, 1, Len(p)) = p

\* Where `old` occurs in s.
Occurrences(s, old) ==
    {i \in 1..(Len(s) - Len(old) + 1) : SubSeq(s, i, i + Len(old) - 1) = old}

RECURSIVE LeftmostFrom(_, _, _)
\* The occurrences str.replace takes: the leftmost, then the leftmost after it.
LeftmostFrom(occ, from, width) ==
    LET later == {i \in occ : i >= from}
    IN  IF later = {} THEN {}
        ELSE LET m == CHOOSE i \in later : \A j \in later : i <= j
             IN  {m} \cup LeftmostFrom(occ, m + width, width)

\* str.replace(old, new): every non-overlapping occurrence, left to right.
Replace(s, old, new) ==
    LET taken == LeftmostFrom(Occurrences(s, old), 1, Len(old))
    IN  IF taken = {} THEN s
        ELSE Concat([i \in 1..Len(s) |->
                 IF i \in taken THEN new
                 ELSE IF \E m \in taken : m < i /\ i < m + Len(old) THEN <<>>
                 ELSE <<s[i]>>])

\* --------------------------------------------------------- text escaping
\* The replacements with the backslash pass moved to the end.
EscapeBackslashLast(value) ==
    Replace(Replace(Replace(Replace(Replace(Replace(value,
        <<";">>, <<BSL, ";">>),
        <<",">>, <<BSL, ",">>),
        CRLF, <<BSL, "n">>),
        <<LF>>, <<BSL, "n">>),
        <<CR>>, <<BSL, "n">>),
        <<BSL>>, <<BSL, BSL>>)

_escape_ical_text(value) ==
    Replace(Replace(Replace(Replace(Replace(Replace(value,
        <<BSL>>, <<BSL, BSL>>),
        <<";">>, <<BSL, ";">>),
        <<",">>, <<BSL, ",">>),
        CRLF, <<BSL, "n">>),
        <<LF>>, <<BSL, "n">>),
        <<CR>>, <<BSL, "n">>)

\* ------------------------------------------------------------ line folding
FOLD_LIMIT == 75

\* One pass of the while loop: what is appended to `out`, and the new `line`.
FoldChunk(line, limit) == SubSeq(line, 1, limit)
FoldRestNoSpace(line, limit) == SubSeq(line, limit + 1, Len(line))
FoldRest(line, limit) == <<SP>> \o SubSeq(line, limit + 1, Len(line))

RECURSIVE FoldWhile(_, _, _)
FoldWhile(out, line, limit) ==
    IF Len(line) > limit
    THEN FoldWhile(Append(out, FoldChunk(line, limit)), FoldRest(line, limit), limit)
    ELSE Append(out, line)

_fold_ical_line(line, limit) ==
    IF Len(line) <= limit THEN line ELSE Join(CRLF, FoldWhile(<<>>, line, limit))

\* ------------------------------------------------------- dates and times
\* A date is [type |-> "date", y, m, d]; a datetime is [type |-> "datetime",
\* y, m, d, hh, mi, ss], an aware value in UTC, as the rows of a
\* DateTime(timezone=True) column are loaded.  None for either is NoneTime.
NoneTime == [type |-> "none"]
NoneText == <<"None">>
NoneList == <<NoneText>>

Date(y, m, d) == [type |-> "date", y |-> y, m |-> m, d |-> d]
DateTime(y, m, d, hh, mi, ss) ==
    [type |-> "datetime", y |-> y, m |-> m, d |-> d, hh |-> hh, mi |-> mi, ss |-> ss]

\* datetime.MAXYEAR: date.max is 9999-12-31
MAXYEAR == 9999

IsLeap(y) == (y % 4 = 0 /\ y % 100 # 0) \/ y % 400 = 0
DaysInMonth(y, m) ==
    IF m = 2 THEN (IF IsLeap(y) THEN 29 ELSE 28)
    ELSE IF m \in {4, 6, 9, 11} THEN 30 ELSE 31

\* The calendar day after a date.
NextDay(dt) ==
    IF dt.d < DaysInMonth(dt.y, dt.m) THEN Date(dt.y, dt.m, dt.d + 1)
    ELSE IF dt.m < 12 THEN Date(dt.y, dt.m + 1, 1)
    ELSE Date(dt.y + 1, 1, 1)

Overflow == [type |-> "OverflowError"]

\* d + timedelta(days=1): OverflowError past date.max
PlusOneDay(dt) == IF NextDay(dt).y > MAXYEAR THEN Overflow ELSE NextDay(dt)

\* datetime.date()
DateOf(dt) == Date(dt.y, dt.m, dt.d)

DigitChar(n) == <<"0", "1", "2", "3", "4", "5", "6", "7", "8", "9">>[n + 1]
\* A number in `width` decimal digits, zero padded (%Y, %m, %d, %H, %M, %S).
Pad(n, width) == [i \in 1..width |-> DigitChar((n \div (10 ^ (width - i))) % 10)]

\* d.strftime("%Y%m%d")
_fmt_date(d) == Pad(d.y, 4) \o Pad(d.m, 2) \o Pad(d.d, 2)

\* dt.astimezone(UTC).strftime("%Y%m%dT%H%M%SZ"); the values are in UTC already
_fmt_dt_utc(dt) ==
    Pad(dt.y, 4) \o Pad(dt.m, 2) \o Pad(dt.d, 2) \o <<"T">>
        \o Pad(dt.hh, 2) \o Pad(dt.mi, 2) \o Pad(dt.ss, 2) \o <<"Z">>

\* ------------------------------------------------------------ the adapter
\* Python truth of an optional text, and of an optional list of texts:
\* neither None nor empty.
Truthy(x) == x # NoneText /\ x # <<>>
TruthyList(x) == x # NoneList /\ x # <<>>

\* a or b
Or(a, b) == IF Truthy(a) THEN a ELSE b

RRULE_PREFIX == <<"R", "R", "U", "L", "E", ":">>

\* str.removeprefix
RemovePrefix(s, p) == IF StartsWith(s, p) THEN SubSeq(s, Len(p) + 1, Len(s)) ELSE s

\* row.recurrence_rules[0].removeprefix("RRULE:") if row.recurrence_rules else None
RowRRule(row) ==
    IF TruthyList(row.recurrence_rules)
    THEN RemovePrefix(row.recurrence_rules[1], RRULE_PREFIX)
    ELSE NoneText

IcsEvent(uid, dtstamp, dtstart, dtend, row) ==
    [uid |-> uid, dtstamp |-> dtstamp, dtstart |-> dtstart, dtend |-> dtend,
     summary |-> row.title, description |-> row.description,
     location |-> row.location, status |-> row.status,
     transp |-> row.transparency, url |-> Or(row.html_link, row.web_link),
     rrule |-> RowRRule(row)]

Raised == [raised |-> "OverflowError"]

calendar_event_to_ics_event(row) ==
    LET uid == Or(row.ical_uid, row.id)
        dtstamp == row.updated_at
    IN  IF row.is_all_day /\ row.start_at # NoneTime
        THEN LET start_d == DateOf(row.start_at)
                 end_d == IF row.end_at # NoneTime THEN DateOf(row.end_at)
                          ELSE PlusOneDay(start_d)
             IN  IF end_d = Overflow THEN Raised
                 ELSE IcsEvent(uid, dtstamp, start_d, end_d, row)
        ELSE IcsEvent(uid, dtstamp,
                      (IF row.start_at # NoneTime THEN row.start_at ELSE dtstamp),
                      row.end_at, row)

\* ----------------------------------------------------------- the renderer
PRODID == <<"-", "/", "/", "H", "e", "l", "p", "S", "e", "l", "l", "P", "o", "s", "s", "i",
        "b", "l", "e", "N", "o", "w", "/", "/", "C", "a", "l", "e", "n", "d", "a", "r", "/",
        "/", "E", "N">>
CALNAME == <<"P", "o", "s", "s", "i", "b", "l", "e", "N", "o", "w", " ", "E", "v", "e", "n",
        "t", "s">>

UpperChar(c) ==
    CASE c = "a" -> "A" [] c = "b" -> "B" [] c = "c" -> "C" [] c = "d" -> "D"
      [] c = "e" -> "E" [] c = "f" -> "F" [] c = "i" -> "I" [] c = "m" -> "M"
      [] c = "n" -> "N" [] c = "o" -> "O" [] c = "q" -> "Q" [] c = "r" -> "R"
      [] c = "t" -> "T" [] c = "u" -> "U" [] c = "x" -> "X" [] c = "y" -> "Y"
      [] OTHER -> c
\* str.upper(), on the letters the model's values use
Upper(s) == [i \in 1..Len(s) |-> UpperChar(s[i])]

\* The text property line emitted whatever the value.
TextLineAlways(name, value) ==
    << name \o _escape_ical_text(IF value = NoneText THEN <<>> ELSE value) >>
\* A text property line, or nothing when the value is None or empty.
TextLine(name, value) ==
    IF Truthy(value) THEN << name \o _escape_ical_text(value) >> ELSE <<>>
UpperTextLine(name, value) ==
    IF Truthy(value) THEN << name \o Upper(_escape_ical_text(value)) >> ELSE <<>>

\* if e.rrule: lines.append(f"RRULE:{_escape_ical_text(e.rrule)}")
RRuleLine(value) == TextLine(RRULE_PREFIX, value)

DtStartLine(dtstart) ==
    IF dtstart.type = "date"
    THEN <<"D", "T", "S", "T", "A", "R", "T", ";", "V", "A", "L", "U", "E", "=", "D", "A", "T",
        "E", ":">> \o _fmt_date(dtstart)
    ELSE <<"D", "T", "S", "T", "A", "R", "T", ":">> \o _fmt_dt_utc(dtstart)

DtEndLines(dtend) ==
    IF dtend = NoneTime THEN <<>>
    ELSE IF dtend.type = "date"
         THEN << <<"D", "T", "E", "N", "D", ";", "V", "A", "L", "U", "E", "=", "D", "A", "T",
        "E", ":">> \o _fmt_date(dtend) >>
         ELSE << <<"D", "T", "E", "N", "D", ":">> \o _fmt_dt_utc(dtend) >>

BEGIN_VEVENT == <<"B", "E", "G", "I", "N", ":", "V", "E", "V", "E", "N", "T">>
END_VEVENT == <<"E", "N", "D", ":", "V", "E", "V", "E", "N", "T">>
BEGIN_VCALENDAR == <<"B", "E", "G", "I", "N", ":", "V", "C", "A", "L", "E", "N", "D", "A", "R">>
END_VCALENDAR == <<"E", "N", "D", ":", "V", "C", "A", "L", "E", "N", "D", "A", "R">>

\* The lines of one event, unfolded: the body of the for loop.
EventLines(e) ==
    << BEGIN_VEVENT,
       <<"U", "I", "D", ":">> \o _escape_ical_text(e.uid),
       <<"D", "T", "S", "T", "A", "M", "P", ":">> \o _fmt_dt_utc(e.dtstamp),
       DtStartLine(e.dtstart) >>
    \o DtEndLines(e.dtend)
    \o TextLine(<<"S", "U", "M", "M", "A", "R", "Y", ":">>, e.summary)
    \o TextLine(<<"D", "E", "S", "C", "R", "I", "P", "T", "I", "O", "N", ":">>, e.description)
    \o TextLine(<<"L", "O", "C", "A", "T", "I", "O", "N", ":">>, e.location)
    \o UpperTextLine(<<"S", "T", "A", "T", "U", "S", ":">>, e.status)
    \o UpperTextLine(<<"T", "R", "A", "N", "S", "P", ":">>, e.transp)
    \o TextLine(<<"U", "R", "L", ":">>, e.url)
    \o RRuleLine(e.rrule)
    \o << END_VEVENT >>

HeaderLines(prodid, calname) ==
    << BEGIN_VCALENDAR,
       <<"V", "E", "R", "S", "I", "O", "N", ":", "2", ".", "0">>,
       <<"P", "R", "O", "D", "I", "D", ":">> \o prodid,
       <<"C", "A", "L", "S", "C", "A", "L", "E", ":", "G", "R", "E", "G", "O", "R", "I", "A", "N">>,
       <<"M", "E", "T", "H", "O", "D", ":", "P", "U", "B", "L", "I", "S", "H">>,
       <<"X", "-", "W", "R", "-", "C", "A", "L", "N", "A", "M", "E",
        ":">> \o _escape_ical_text(calname),
       <<"N", "A", "M", "E", ":">> \o _escape_ical_text(calname) >>

\* The list `lines` when the loop over the events is done.
CalendarLines(events) ==
    HeaderLines(PRODID, CALNAME)
    \o Concat([i \in 1..Len(events) |-> EventLines(events[i])])
    \o << END_VCALENDAR >>

\* The join without the closing CRLF.
JoinNoTrailer(lines) ==
    Join(CRLF, [i \in 1..Len(lines) |-> _fold_ical_line(lines[i], FOLD_LIMIT)])
\* "\r\n".join(_fold_ical_line(l) for l in lines) + "\r\n"
JoinFolded(lines) ==
    Join(CRLF, [i \in 1..Len(lines) |-> _fold_ical_line(lines[i], FOLD_LIMIT)]) \o CRLF

render_calendar_ics(events) == JoinFolded(CalendarLines(events))

\* render_calendar_ics(calendar_event_to_ics_event(r) for r in rows): the
\* generator is consumed inside the renderer, so an adapter that raises ends
\* the rendering with that exception.
RaisedDoc == <<"OverflowError">>
RenderRows(rows) ==
    LET events == [i \in 1..Len(rows) |-> calendar_event_to_ics_event(rows[i])]
    IN  IF \E i \in 1..Len(rows) : events[i] = Raised
        THEN RaisedDoc
        ELSE render_calendar_ics(events)


\* ---------------------------------------------------------- the requests
\* request.args is a MultiDict: the pairs <<key, value>> of the query string
\* in their order, every value a text.  A missing key reads as NoneText.
ArgsGet(args, key) ==
    IF \E i \in 1..Len(args) : args[i][1] = key
    THEN args[CHOOSE i \in 1..Len(args) :
                 args[i][1] = key /\ \A j \in 1..(i - 1) : args[j][1] # key][2]
    ELSE NoneText

IsDigit(c) == c \in {"0", "1", "2", "3", "4", "5", "6", "7", "8", "9"}
DigitValue(c) ==
    CASE c = "0" -> 0 [] c = "1" -> 1 [] c = "2" -> 2 [] c = "3" -> 3 [] c = "4" -> 4
      [] c = "5" -> 5 [] c = "6" -> 6 [] c = "7" -> 7 [] c = "8" -> 8 [] c = "9" -> 9

RECURSIVE DigitsValue(_)
DigitsValue(s) ==
    IF s = <<>> THEN 0
    ELSE DigitsValue(SubSeq(s, 1, Len(s) - 1)) * 10 + DigitValue(s[Len(s)])

\* Whether int(text) succeeds: an optional sign and at least one digit.
IsIntText(s) ==
    LET body == IF s # <<>> /\ s[1] \in {"-", "+"} THEN Tail(s) ELSE s
    IN  body # <<>> /\ \A i \in 1..Len(body) : IsDigit(body[i])

\* int(text), for a text that IsIntText
IntOf(s) ==
    IF s[1] = "-" THEN 0 - DigitsValue(Tail(s))
    ELSE IF s[1] = "+" THEN DigitsValue(Tail(s))
    ELSE DigitsValue(s)

RECURSIVE DecimalDigits(_)
\* str(n) for n >= 0
DecimalDigits(n) ==
    IF n < 10 THEN <<DigitChar(n)>>
    ELSE DecimalDigits(n \div 10) \o <<DigitChar(n % 10)>>

DEFAULT_LIMIT == 2000
MAX_LIMIT == 10000

Max(a, b) == IF a >= b THEN a ELSE b
Min(a, b) == IF a <= b THEN a ELSE b

\* request.args.get("limit", default=2000, type=int): the first value of the
\* key converted by int, the default when the key is missing or int fails
LimitArg(args) ==
    LET raw == ArgsGet(args, "limit")
    IN  IF raw = NoneText \/ ~IsIntText(raw) THEN DEFAULT_LIMIT ELSE IntOf(raw)

\* The clamp without its lower end.
ClampUpperOnly(limit) == Min(limit, MAX_LIMIT)
\* limit = max(1, min(limit, 10000))
ClampLimit(limit) == Max(1, Min(limit, MAX_LIMIT))

\* ------------------------------------------------------------- the table
\* A stored event, as far as the feed endpoint reads it: its id, start_at
\* (NoStart for NULL), created_at, updated_at, and title standing for the
\* content of its other columns.  Instants are ticks of the clock.
NoStart == -1
NoInstant == -1

\* order_by(start_at.asc().nullslast(), created_at.desc())
SortsBefore(a, b) ==
    IF a.start_at # b.start_at
    THEN a.start_at # NoStart /\ (b.start_at = NoStart \/ a.start_at < b.start_at)
    ELSE a.created_at > b.created_at

Ordered(tbl) ==
    [k \in 1..Cardinality(tbl) |->
        CHOOSE r \in tbl : Cardinality({q \in tbl : SortsBefore(q, r)}) = k - 1]

\* .limit(limit).all()
Query(tbl, limit) == SubSeq(Ordered(tbl), 1, Min(limit, Cardinality(tbl)))

RECURSIVE NewestOf(_, _)
\* for r in rows: if r.updated_at and (newest is None or r.updated_at > newest)
NewestOf(rows, newest) ==
    IF rows = <<>> THEN newest
    ELSE NewestOf(Tail(rows),
                  IF newest = NoInstant \/ Head(rows).updated_at > newest
                  THEN Head(rows).updated_at ELSE newest)

\* datetime.isoformat() of an instant: one text per instant
isoformat(t) == DecimalDigits(t)

\* hashlib.sha256(...).hexdigest(), taken as injective: the text itself
sha256_hexdigest(src) == src

\* f"{len(rows)}:{newest.isoformat()}"
EtagSrc(count, newest) == DecimalDigits(count) \o <<":">> \o isoformat(newest)

\* What one request fetches and computes before it answers.
Fetch(tbl, now, args) ==
    LET limit == ClampLimit(LimitArg(args))
        rows == Query(tbl, limit)
        max_updated == NewestOf(rows, NoInstant)
        newest == IF max_updated = NoInstant THEN now ELSE max_updated
    IN  [limit |-> limit, rows |-> rows, count |-> Len(rows),
         max_updated |-> max_updated, newest |-> newest,
         etag |-> sha256_hexdigest(EtagSrc(Len(rows), newest))]

\* request.args.to_dict(flat=True): every key once, in the order of its
\* first occurrence, with its first value
ToDictFlat(args) ==
    LET firsts == {i \in 1..Len(args) : \A j \in 1..(i - 1) : args[j][1] # args[i][1]}
    IN  [k \in 1..Cardinality(firsts) |->
            args[CHOOSE i \in firsts : Cardinality({j \in firsts : j < i}) = k - 1]]

\* The redirect query made of v alone.
SetKeyAlone(qs, key, value) == << <<key, value>> >>
\* qs[key] = value: in place when the key is there, at the end otherwise
SetKey(qs, key, value) ==
    IF \E i \in 1..Len(qs) : qs[i][1] = key
    THEN [i \in 1..Len(qs) |-> IF qs[i][1] = key THEN <<key, value>> ELSE qs[i]]
    ELSE Append(qs, <<key, value>>)

CANONICAL_PATH == <<"/", "c", "a", "l", "e", "n", "d", "a", "r", ".", "i", "c", "s">>
NO_STORE == <<"n", "o", "-", "s", "t", "o", "r", "e", ",", " ", "m", "a", "x", "-", "a", "g",
        "e", "=", "0", ",", " ", "m", "u", "s", "t", "-", "r", "e", "v", "a", "l", "i", "d",
        "a", "t", "e">>
NoLocation == [none |-> TRUE]

\* The 304 answered before the canonical redirect is looked at.
ImplNotModifiedFirst(tbl, now, canonical, args, inm) ==
    LET f == Fetch(tbl, now, args)
        v == ArgsGet(args, "v")
    IN  IF inm = f.etag
        THEN [status |-> 304, location |-> NoLocation, cache_control |-> NoneText,
              etag |-> NoneText, last_modified |-> NoInstant, body |-> <<>>]
        ELSE IF canonical /\ v # f.etag
        THEN [status |-> 302,
              location |-> [base_url |-> CANONICAL_PATH,
                            query |-> SetKey(ToDictFlat(args), "v", f.etag)],
              cache_control |-> NO_STORE, etag |-> NoneText,
              last_modified |-> NoInstant, body |-> <<>>]
        ELSE [status |-> 200, location |-> NoLocation, cache_control |-> NO_STORE,
              etag |-> f.etag, last_modified |-> f.newest, body |-> f.rows]

\* The response of _public_calendar_ics_impl.  The body of a 200 is the
\* document rendered from the fetched rows (SpecRender); it is carried here
\* as the list of those rows.
_public_calendar_ics_impl(tbl, now, canonical, args, inm) ==
    LET f == Fetch(tbl, now, args)
        v == ArgsGet(args, "v")
    IN  IF canonical /\ v # f.etag
        THEN [status |-> 302,
              location |-> [base_url |-> CANONICAL_PATH,
                            query |-> SetKey(ToDictFlat(args), "v", f.etag)],
              cache_control |-> NO_STORE, etag |-> NoneText,
              last_modified |-> NoInstant, body |-> <<>>]
        ELSE IF inm = f.etag
        THEN [status |-> 304, location |-> NoLocation, cache_control |-> NoneText,
              etag |-> NoneText, last_modified |-> NoInstant, body |-> <<>>]
        ELSE [status |-> 200, location |-> NoLocation, cache_control |-> NO_STORE,
              etag |-> f.etag, last_modified |-> f.newest, body |-> f.rows]

\* ------------------------------------------------------------- SpecEvent
\* One stored row through the adapter and the renderer.
LongTitle == [i \in 1..LongTextLen |-> IF i % 9 = 0 THEN "," ELSE "x"]

StartChoices ==
    {NoneTime, DateTime(2025, 12, 15, 10, 0, 0), DateTime(2025, 12, 31, 23, 30, 0),
     DateTime(2024, 2, 28, 0, 0, 0), DateTime(9999, 12, 31, 0, 0, 0)}
EndChoices ==
    {NoneTime, DateTime(2025, 12, 15, 10, 30, 0), DateTime(2025, 12, 17, 0, 0, 0)}
RuleChoices ==
    {NoneList, <<>>, << <<"F", "R", "E", "Q", "=", "D", "A", "I", "L", "Y">> >>, << <<"F", "R",
        "E", "Q", "=", "W", "E", "E", "K", "L", "Y", ";", "B", "Y", "D", "A", "Y", "=", "M",
        "O", ",", "W", "E">> >>,
     << <<"R", "R", "U", "L", "E", ":", "F", "R", "E", "Q", "=", "D", "A", "I", "L", "Y">>,
        <<"F", "R", "E", "Q", "=", "Y", "E", "A", "R", "L", "Y">> >>}
TitleChoices == {NoneText, <<>>, <<"a", ";", "b">>, LongTitle}

Row(id, uid, allday, start, end, title, status, link, rules) ==
    [id |-> id, ical_uid |-> uid,
     created_at |-> DateTime(2025, 1, 2, 3, 4, 5),
     updated_at |-> DateTime(2025, 6, 7, 8, 9, 10),
     is_all_day |-> allday, start_at |-> start, end_at |-> end,
     title |-> title, description |-> NoneText, location |-> NoneText,
     status |-> status, transparency |-> NoneText,
     html_link |-> NoneText, web_link |-> link,
     recurrence_rules |-> rules]

EventRows ==
    {Row(<<"i", "d", "1">>, uid, allday, start, end, title, status, link, rules) :
        uid \in {NoneText, <<"a", "b", "c">>}, allday \in BOOLEAN,
        start \in StartChoices, end \in EndChoices, title \in TitleChoices,
        status \in {NoneText, <<"c", "o", "n", "f", "i", "r", "m", "e", "d">>}, link \in {NoneText},
        rules \in RuleChoices}

\* ------------------------------------------------------------ SpecRender
\* A sequence of events through the renderer.
CalRows ==
    {Row(<<"i", "d", "1">>, <<"a", "b", "c">>, FALSE, DateTime(2025, 12, 15, 15, 0, 0),
         DateTime(2025, 12, 15, 15, 30, 0), <<"S", "t", "a", "n", "d", "u", "p">>, NoneText,
        NoneText, NoneList),
     Row(<<"i", "d", "2">>, NoneText, TRUE, DateTime(2025, 12, 15, 0, 0, 0), NoneTime,
         LongTitle, <<"c", "o", "n", "f", "i", "r", "m", "e", "d">>, <<"u">>, << <<"F", "R",
        "E", "Q", "=", "D", "A", "I", "L", "Y">> >>),
     Row(<<"i", "d", "3">>, NoneText, FALSE, NoneTime, NoneTime, NoneText, NoneText,
         NoneText, <<>>),
     Row(<<"i", "d", "4">>, <<"B", "E", "G", "I", "N", ":", "V", "E", "V", "E", "N", "T">>,
        TRUE, DateTime(2025, 12, 31, 0, 0, 0),
         DateTime(2026, 1, 2, 0, 0, 0), <<"a", CR, LF, "b", LF>>, NoneText, NoneText,
         NoneList)}
CalEvents == {calendar_event_to_ics_event(r) : r \in CalRows}

RECURSIVE SeqsOfLen(_, _)
SeqsOfLen(S, n) ==
    IF n = 0 THEN {<<>>}
    ELSE {<<x>> \o t : x \in S, t \in SeqsOfLen(S, n - 1)}
SeqsUpTo(S, n) == UNION {SeqsOfLen(S, k) : k \in 0..n}

\* ----------------------------------------------------------- SpecRequest
\* One request to the feed endpoint against a stored table.
StoredRow(i) ==
    [id |-> i, start_at |-> (IF i = 2 THEN NoStart ELSE 10 - i), created_at |-> i,
     updated_at |-> (IF i = 1 THEN RequestNow - 1 ELSE i), title |-> 0]
RequestTables == {{StoredRow(i) : i \in 1..n} : n \in 0..MaxRows}

STALE == <<"s", "t", "a", "l", "e">>
LimitTexts == {<<"0">>, <<"1">>, <<"2">>, <<"-", "1">>, <<"1", "0", "0", "0", "0">>, <<"1",
        "0", "0", "0", "1">>, <<"a", "b", "c">>}
\* The fingerprints a request to this table can meet, one per limit.
EtagsNow(tbl, now) == {Fetch(tbl, now, << <<"limit", l>> >>).etag : l \in LimitTexts}
ArgPairs(tbl, now) ==
    {<<"limit", l>> : l \in LimitTexts}
        \cup {<<"v", x>> : x \in {STALE} \cup EtagsNow(tbl, now)}
        \cup {<<"x", x>> : x \in {<<"1">>, <<"2">>}}

\* ------------------------------------------------------------------ Spec
\* The table under create, patch and delete, and the feed requests between.
Starts == {1, 2, NoStart}
NoFetch == [none |-> TRUE]
NoResponse == [none |-> TRUE]

\* -------------------------------------------------------------- the patch
\* CalendarEvent.apply_patch, as far as the instants and their timezone
\* labels go.  A payload is a function from the keys it holds to their
\* values; a value is a text (a TLA+ string here: no operation looks inside
\* it) or PyNone.  Instants are hours of 2025-12-15 in UTC, NoInstant for
\* None.
PyNone == "None"
PatchKeys ==
    {"start_local", "start_timezone", "start_at", "end_local", "end_timezone", "end_at"}

\* payload.get(key)
PayloadGet(payload, key) == IF key \in DOMAIN payload THEN payload[key] ELSE PyNone
\* Python truth of an optional text
PyTruthy(v) == v # PyNone /\ v # ""

\* datetime.fromisoformat(local_iso): the local hour, for the texts it accepts
LocalTexts == {"2025-12-15T10:00:00", "2025-12-15T13:00:00"}
LocalHour(text) == IF text = "2025-12-15T10:00:00" THEN 10 ELSE 13
\* ZoneInfo(tz_name): hours to add to local time to get UTC, for the names
\* it knows
ZoneNames == {"America/New_York", "UTC"}
ZoneOffset(name) == IF name = "America/New_York" THEN 5 ELSE 0

\* Whether _local_to_utc returns; it raises otherwise
Converts(local_iso, tz_name) == local_iso \in LocalTexts /\ tz_name \in ZoneNames
\* naive.replace(tzinfo=tz).astimezone(ZoneInfo("UTC"))
_local_to_utc(local_iso, tz_name) == LocalHour(local_iso) + ZoneOffset(tz_name)

\* datetime.fromisoformat(value.replace("Z", "+00:00")), for the texts it
\* accepts; it raises ValueError otherwise
InstantTexts == {"2025-12-15T15:00:00Z", "2025-12-15T20:00:00+00:00"}
InstantOf(text) == IF text = "2025-12-15T15:00:00Z" THEN 15 ELSE 20

\* The generic key loop: setattr(self, key, payload[key]) if key in payload
SetIfGiven(ev, payload, key) ==
    IF key \in DOMAIN payload THEN [ev EXCEPT ![key] = payload[key]] ELSE ev

\* if payload.get(local) and payload.get(tz): try: self.<at> = _local_to_utc(...)
\* except Exception: pass
ConvertLocal(ev, payload, local, tz, at) ==
    IF PyTruthy(PayloadGet(payload, local)) /\ PyTruthy(PayloadGet(payload, tz))
       /\ Converts(payload[local], payload[tz])
    THEN [ev EXCEPT ![at] = _local_to_utc(payload[local], payload[tz])]
    ELSE ev

\* Whether the loop over the datetime keys raises on this key
DtKeyRaises(payload, key) ==
    key \in DOMAIN payload /\ payload[key] # PyNone /\ payload[key] \notin InstantTexts
\* One pass of the loop over the datetime keys
SetDtKey(ev, payload, key) ==
    IF key \notin DOMAIN payload THEN ev
    ELSE IF payload[key] = PyNone THEN [ev EXCEPT ![key] = NoInstant]
    ELSE [ev EXCEPT ![key] = InstantOf(payload[key])]

\* apply_patch: the record afterwards, and whether ValueError came out of it
apply_patch(ev, payload) ==
    LET labelled == SetIfGiven(SetIfGiven(ev, payload, "start_timezone"),
                               payload, "end_timezone")
        started == ConvertLocal(labelled, payload,
                                "start_local", "start_timezone", "start_at")
        ended == ConvertLocal(started, payload, "end_local", "end_timezone", "end_at")
    IN  IF DtKeyRaises(payload, "start_at")
        THEN [raised |-> TRUE, event |-> ended]
        ELSE IF DtKeyRaises(payload, "end_at")
        THEN [raised |-> TRUE, event |-> SetDtKey(ended, payload, "start_at")]
        ELSE [raised |-> FALSE,
              event |-> SetDtKey(SetDtKey(ended, payload, "start_at"), payload, "end_at")]

NoPayload == [none |-> TRUE]
NotPatched == [none |-> TRUE]
StoredEvent(start_at, end_at, start_timezone, end_timezone) ==
    [start_at |-> start_at, end_at |-> end_at,
     start_timezone |-> start_timezone, end_timezone |-> end_timezone]
NoEvent == StoredEvent(NoInstant, NoInstant, PyNone, PyNone)
PatchIdle == patchEvent = NoEvent /\ patchPayload = NoPayload /\ patchResult = NotPatched

\* ------------------------------------------------------------ the session
\* src/db.py: the module globals _ENGINE and _SessionLocal, None at import,
\* and the requests that reach them, each in its own thread.  An engine is
\* named by the thread that created it; a session factory by the engine it
\* is bound to.
NoEngine == "None"
NoFactory == "None"
Threads == 1..MaxThreads
EngineOf(t) == <<"engine", t>>
\* What a request is: one that opens a session (get_session) or one that
\* asks for the engine only (get_engine, as /api/health does).
RequestKinds == {"session", "engine"}
IdleRequest ==
    [kind |-> "none", pc |-> "idle", session |-> "none", raised |-> FALSE,
     rolled_back |-> FALSE, error |-> "none"]
DbIdle ==
    /\ dbEngine = <<NoEngine>> /\ dbSessionLocal = <<NoFactory>>
    /\ dbRequest = [t \in Threads |-> IdleRequest]

\* -------------------------------------------------------- initial values
EscIdle == escValue = <<>> /\ escResult = NotRun
FoldIdle ==
    /\ foldInput = <<>> /\ foldLine = <<>> /\ foldOut = <<>>
    /\ foldPc = "idle" /\ foldResult = NotRun
EvIdle == evRow = NoneTime /\ evDoc = NotRun
CalIdle == calEvents = <<>> /\ calDoc = NotRun
NoRequest == [none |-> TRUE]
RqIdle == rqTable = {} /\ rqRequest = NoRequest /\ rqResponse = NoResponse
FeedIdle ==
    /\ table = {} /\ clock = 0 /\ nextId = 1
    /\ prevFetch = NoFetch /\ lastFetch = NoFetch /\ lastResponse = NoResponse
    /\ redirects = 0

\* ------------------------------------------------------------ SpecEscape
EscAlphabet == {BSL, ";", ",", CR, LF, "n", "a"}

RECURSIVE TextsOfLen(_, _)
TextsOfLen(alphabet, n) ==
    IF n = 0 THEN {<<>>}
    ELSE {<<c>> \o t : c \in alphabet, t \in TextsOfLen(alphabet, n - 1)}

TextsUpTo(alphabet, n) == UNION {TextsOfLen(alphabet, k) : k \in 0..n}

InitEscape ==
    /\ escValue \in TextsUpTo(EscAlphabet, MaxTextLen)
    /\ escResult = NotRun
    /\ FoldIdle /\ EvIdle /\ CalIdle /\ RqIdle /\ FeedIdle /\ PatchIdle /\ DbIdle

Escape ==
    /\ escResult = NotRun
    /\ escResult' = _escape_ical_text(escValue)
    /\ UNCHANGED <<escValue, foldVars, evVars, calVars, rqVars, feedVars, patchVars, dbVars>>

NextEscape == Escape

SpecEscape == InitEscape /\ [][NextEscape]_vars

\* -------------------------------------------------------------- SpecFold
\* Logical lines as render_calendar_ics produces them: no CR or LF (every
\* value is escaped or formatted), spaces possibly anywhere, including right
\* at a fold point.
FoldDigit(i) == <<"0", "1", "2", "3", "4", "5", "6", "7", "8", "9">>[(i % 10) + 1]
FoldPatterns == {0, 7, 75, 76}
LineOf(n, p) == [i \in 1..n |-> IF p > 0 /\ i % p = 0 THEN SP ELSE FoldDigit(i)]

InitFold ==
    /\ \E n \in 0..MaxLineLen, p \in FoldPatterns : foldInput = LineOf(n, p)
    /\ foldLine = <<>>
    /\ foldOut = <<>>
    /\ foldPc = "start"
    /\ foldResult = NotRun
    /\ EscIdle /\ EvIdle /\ CalIdle /\ RqIdle /\ FeedIdle /\ PatchIdle /\ DbIdle

\* if len(line) <= limit: return line
FoldReturnShort ==
    /\ foldPc = "start"
    /\ Len(foldInput) <= FOLD_LIMIT
    /\ foldResult' = foldInput
    /\ foldPc' = "done"
    /\ UNCHANGED <<foldInput, foldLine, foldOut, escVars, evVars, calVars, rqVars, feedVars, patchVars, dbVars>>

\* out = []
FoldBegin ==
    /\ foldPc = "start"
    /\ Len(foldInput) > FOLD_LIMIT
    /\ foldLine' = foldInput
    /\ foldOut' = <<>>
    /\ foldPc' = "loop"
    /\ UNCHANGED <<foldInput, foldResult, escVars, evVars, calVars, rqVars, feedVars, patchVars, dbVars>>

\* while len(line) > limit: out.append(line[:limit]); line = " " + line[limit:]
FoldIterate ==
    /\ foldPc = "loop"
    /\ Len(foldLine) > FOLD_LIMIT
    /\ foldOut' = Append(foldOut, FoldChunk(foldLine, FOLD_LIMIT))
    /\ foldLine' = FoldRest(foldLine, FOLD_LIMIT)
    /\ UNCHANGED <<foldInput, foldPc, foldResult, escVars, evVars, calVars, rqVars, feedVars, patchVars, dbVars>>

\* out.append(line); return "\r\n".join(out)
FoldFinish ==
    /\ foldPc = "loop"
    /\ Len(foldLine) <= FOLD_LIMIT
    /\ foldOut' = Append(foldOut, foldLine)
    /\ foldResult' = Join(CRLF, Append(foldOut, foldLine))
    /\ foldPc' = "done"
    /\ UNCHANGED <<foldInput, foldLine, escVars, evVars, calVars, rqVars, feedVars, patchVars, dbVars>>

NextFold == FoldReturnShort \/ FoldBegin \/ FoldIterate \/ FoldFinish

SpecFold == InitFold /\ [][NextFold]_vars

InitEvent ==
    /\ evRow \in EventRows
    /\ evDoc = NotRun
    /\ EscIdle /\ FoldIdle /\ CalIdle /\ RqIdle /\ FeedIdle /\ PatchIdle /\ DbIdle

\* ics = render_calendar_ics(calendar_event_to_ics_event(r) for r in rows)
RenderEvent ==
    /\ evDoc = NotRun
    /\ evDoc' = RenderRows(<<evRow>>)
    /\ UNCHANGED <<evRow, escVars, foldVars, calVars, rqVars, feedVars, patchVars, dbVars>>

NextEvent == RenderEvent

SpecEvent == InitEvent /\ [][NextEvent]_vars

InitRender ==
    /\ calEvents \in SeqsUpTo(CalEvents, MaxEvents)
    /\ calDoc = NotRun
    /\ EscIdle /\ FoldIdle /\ EvIdle /\ RqIdle /\ FeedIdle /\ PatchIdle /\ DbIdle

Render ==
    /\ calDoc = NotRun
    /\ calDoc' = render_calendar_ics(calEvents)
    /\ UNCHANGED <<calEvents, escVars, foldVars, evVars, rqVars, feedVars, patchVars, dbVars>>

NextRender == Render

SpecRender == InitRender /\ [][NextRender]_vars

InitRequest ==
    /\ rqTable \in RequestTables
    /\ rqRequest = NoRequest
    /\ rqResponse = NoResponse
    /\ EscIdle /\ FoldIdle /\ EvIdle /\ CalIdle /\ FeedIdle /\ PatchIdle /\ DbIdle

\* GET /calendar.ics (canonical) or GET /calendar/<slug>.ics
Request ==
    /\ rqResponse = NoResponse
    /\ \E canonical \in BOOLEAN,
          args \in SeqsUpTo(ArgPairs(rqTable, RequestNow), MaxArgs),
          inm \in {NoneText, STALE} \cup EtagsNow(rqTable, RequestNow) :
          /\ rqRequest' = [canonical |-> canonical, args |-> args, inm |-> inm]
          /\ rqResponse' =
                _public_calendar_ics_impl(rqTable, RequestNow, canonical, args, inm)
    /\ UNCHANGED <<rqTable, escVars, foldVars, evVars, calVars, feedVars, patchVars, dbVars>>

NextRequest == Request

SpecRequest == InitRequest /\ [][NextRequest]_vars

Init ==
    /\ table = {}
    /\ clock = 0
    /\ nextId = 1
    /\ prevFetch = NoFetch
    /\ lastFetch = NoFetch
    /\ lastResponse = NoResponse
    /\ redirects = 0
    /\ EscIdle /\ FoldIdle /\ EvIdle /\ CalIdle /\ RqIdle /\ PatchIdle /\ DbIdle

Others == <<escVars, foldVars, evVars, calVars, rqVars, patchVars, dbVars>>

\* POST /api/events: a row with a fresh id, created_at and updated_at now
create_event ==
    /\ clock < MaxClock
    /\ nextId <= MaxIds
    /\ \E start \in Starts :
          table' = table \cup
              {[id |-> nextId, start_at |-> start, created_at |-> clock,
                updated_at |-> clock, title |-> 0]}
    /\ nextId' = nextId + 1
    /\ clock' = clock + 1
    /\ lastResponse' = [status |-> 201]
    /\ redirects' = 0
    /\ UNCHANGED <<prevFetch, lastFetch, Others>>

\* PATCH /api/events/<id>: 404 without the row; the row is written, and its
\* updated_at set to now, when the payload changes a column
patch_event ==
    /\ clock < MaxClock
    /\ \E id \in 1..MaxIds, start \in Starts, title \in {0, 1} :
          IF \E r \in table : r.id = id
          THEN LET r == CHOOSE x \in table : x.id = id
                   changed == [r EXCEPT !.start_at = start, !.title = title]
               IN  /\ table' = (table \ {r}) \cup
                         {IF changed = r THEN r ELSE [changed EXCEPT !.updated_at = clock]}
                   /\ lastResponse' = [status |-> 200]
          ELSE /\ table' = table
               /\ lastResponse' = [status |-> 404]
    /\ clock' = clock + 1
    /\ redirects' = 0
    /\ UNCHANGED <<nextId, prevFetch, lastFetch, Others>>

\* DELETE /api/events/<id>
delete_event ==
    /\ clock < MaxClock
    /\ \E id \in 1..MaxIds :
          IF \E r \in table : r.id = id
          THEN /\ table' = {r \in table : r.id # id}
               /\ lastResponse' = [status |-> 204]
          ELSE /\ table' = table
               /\ lastResponse' = [status |-> 404]
    /\ clock' = clock + 1
    /\ redirects' = 0
    /\ UNCHANGED <<nextId, prevFetch, lastFetch, Others>>

\* GET /calendar.ics or /calendar/<slug>.ics, first contact: no v, no
\* If-None-Match
public_calendar_ics ==
    /\ clock < MaxClock
    /\ \E canonical \in BOOLEAN, args \in {<<>>, << <<"limit", <<"2">>>> >>} :
          LET response == _public_calendar_ics_impl(table, clock, canonical, args, NoneText)
          IN  /\ lastFetch' = Fetch(table, clock, args)
              /\ lastResponse' = response
              /\ redirects' = IF response.status = 302 THEN 1 ELSE 0
    /\ prevFetch' = lastFetch
    /\ clock' = clock + 1
    /\ UNCHANGED <<table, nextId, Others>>

\* The client given a 302 requests its Location: the canonical path with the
\* query string of the redirect.
follow_redirect ==
    /\ clock < MaxClock
    /\ lastResponse # NoResponse
    /\ lastResponse.status = 302
    /\ LET args == lastResponse.location.query
           response == _public_calendar_ics_impl(table, clock, TRUE, args, NoneText)
       IN  /\ lastFetch' = Fetch(table, clock, args)
           /\ lastResponse' = response
           /\ redirects' = IF response.status = 302 THEN redirects + 1 ELSE 0
    /\ prevFetch' = lastFetch
    /\ clock' = clock + 1
    /\ UNCHANGED <<table, nextId, Others>>

Next ==
    create_event \/ patch_event \/ delete_event \/ public_calendar_ics \/ follow_redirect

Spec == Init /\ [][Next]_vars

\* -------------------------------------------------------------- SpecEmit
\* One stored row whose optional columns are each None, empty or filled,
\* through the adapter and the renderer.
OptionalTexts == {NoneText, <<>>, <<"x">>}
LinkChoices ==
    {<<NoneText, NoneText>>, <<NoneText, <<>>>>, << <<>>, <<"u">>>>, <<<<"h">>, <<"u">>>>}
EmitRuleChoices ==
    {NoneList, <<>>, <<<<"F", "R", "E", "Q", "=", "D", "A", "I", "L", "Y">>>>, <<<<"R", "R",
        "U", "L", "E", ":">>>>, << <<>> >>}
\* ical_uid, is_all_day, start_at and end_at of the rows
EmitShapes ==
    {<<<<>>, FALSE, NoneTime, NoneTime>>,
     <<<<"a", "b", "c">>, TRUE, DateTime(2025, 12, 15, 10, 0, 0), NoneTime>>,
     <<<<"a", "b", "c">>, FALSE, DateTime(2025, 12, 15, 10, 0, 0),
       DateTime(2025, 12, 15, 10, 30, 0)>>}

EmitRow(shape, title, description, location, status, transp, links, rules) ==
    [id |-> <<"i", "d", "1">>, ical_uid |-> shape[1],
     created_at |-> DateTime(2025, 1, 2, 3, 4, 5),
     updated_at |-> DateTime(2025, 6, 7, 8, 9, 10),
     is_all_day |-> shape[2], start_at |-> shape[3], end_at |-> shape[4],
     title |-> title, description |-> description, location |-> location,
     status |-> status, transparency |-> transp,
     html_link |-> links[1], web_link |-> links[2],
     recurrence_rules |-> rules]

EmitRows ==
    {EmitRow(shape, title, description, location, status, transp, links, rules) :
        shape \in EmitShapes,
        title \in OptionalTexts, description \in OptionalTexts,
        location \in OptionalTexts, status \in OptionalTexts,
        transp \in OptionalTexts, links \in LinkChoices, rules \in EmitRuleChoices}

InitEmit ==
    /\ evRow \in EmitRows
    /\ evDoc = NotRun
    /\ EscIdle /\ FoldIdle /\ CalIdle /\ RqIdle /\ FeedIdle /\ PatchIdle /\ DbIdle

SpecEmit == InitEmit /\ [][NextEvent]_vars

\* ------------------------------------------------------------- SpecPatch
\* One apply_patch on a stored record.
Absent == "<absent>"
LocalChoices == {Absent, "", "2025-12-15T10:00:00", "not-a-date"}
ZoneChoices == {Absent, "America/New_York", "Mars/Base"}
StartAtChoices == {Absent, PyNone, "2025-12-15T15:00:00Z", "soon"}
EndLocalChoices == {Absent, "2025-12-15T13:00:00", "not-a-date"}
EndAtChoices == {Absent, "2025-12-15T20:00:00+00:00"}
\* The payload holding the keys that are not Absent
MakePayload(f) == [k \in {k \in PatchKeys : f[k] # Absent} |-> f[k]]
Payloads ==
    {MakePayload([start_local |-> sl, start_timezone |-> stz, start_at |-> sat,
                  end_local |-> el, end_timezone |-> etz, end_at |-> eat]) :
        sl \in LocalChoices, stz \in ZoneChoices, sat \in StartAtChoices,
        el \in EndLocalChoices, etz \in ZoneChoices, eat \in EndAtChoices}
StoredEvents ==
    {StoredEvent(14, 16, "UTC", "UTC"),
     StoredEvent(14, NoInstant, "America/New_York", PyNone)}

InitPatch ==
    /\ patchEvent \in StoredEvents
    /\ patchPayload = NoPayload
    /\ patchResult = NotPatched
    /\ EscIdle /\ FoldIdle /\ EvIdle /\ CalIdle /\ RqIdle /\ FeedIdle /\ DbIdle

\* event.apply_patch(payload)
ApplyPatch ==
    /\ patchResult = NotPatched
    /\ \E payload \in Payloads :
          /\ patchPayload' = payload
          /\ patchResult' = apply_patch(patchEvent, payload)
    /\ UNCHANGED <<patchEvent, escVars, foldVars, evVars, calVars, rqVars, feedVars, dbVars>>

NextPatch == ApplyPatch

SpecPatch == InitPatch /\ [][NextPatch]_vars

\* ---------------------------------------------------------------- SpecDb
\* Requests in their own threads, each statement of get_engine and
\* get_session one step.
InitDb ==
    /\ dbEngine = <<NoEngine>>
    /\ dbSessionLocal = <<NoFactory>>
    /\ dbRequest = [t \in Threads |-> IdleRequest]
    /\ EscIdle /\ FoldIdle /\ EvIdle /\ CalIdle /\ RqIdle /\ FeedIdle /\ PatchIdle

DbOthers == <<escVars, foldVars, evVars, calVars, rqVars, feedVars, patchVars>>
At(t, pc) == dbRequest[t].pc = pc
Goto(t, pc) == dbRequest' = [dbRequest EXCEPT ![t].pc = pc]

\* A request arrives: a view that uses get_session, or one that calls
\* get_engine.
DbArrive(t) ==
    /\ At(t, "idle")
    /\ \E kind \in RequestKinds :
          dbRequest' = [dbRequest EXCEPT ![t].kind = kind,
                           ![t].pc = IF kind = "session" THEN "gs_check" ELSE "ge_check"]
    /\ UNCHANGED <<dbEngine, dbSessionLocal, DbOthers>>

\* get_session: if _SessionLocal is None: get_engine()
GsCheck(t) ==
    /\ At(t, "gs_check")
    /\ Goto(t, IF dbSessionLocal = <<NoFactory>> THEN "ge_check" ELSE "gs_make")
    /\ UNCHANGED <<dbEngine, dbSessionLocal, DbOthers>>

\* get_engine: if _ENGINE is None; return _ENGINE otherwise
GeCheck(t) ==
    /\ At(t, "ge_check")
    /\ Goto(t, IF dbEngine = <<NoEngine>> THEN "ge_create"
               ELSE IF dbRequest[t].kind = "session" THEN "gs_make" ELSE "done")
    /\ UNCHANGED <<dbEngine, dbSessionLocal, DbOthers>>

\* _ENGINE = create_engine(...)
GeCreate(t) ==
    /\ At(t, "ge_create")
    /\ dbEngine' = EngineOf(t)
    /\ Goto(t, "ge_factory")
    /\ UNCHANGED <<dbSessionLocal, DbOthers>>

\* _SessionLocal = sessionmaker(bind=_ENGINE, ...); return _ENGINE
GeFactory(t) ==
    /\ At(t, "ge_factory")
    /\ dbSessionLocal' = dbEngine
    /\ Goto(t, IF dbRequest[t].kind = "session" THEN "gs_make" ELSE "done")
    /\ UNCHANGED <<dbEngine, DbOthers>>

\* session = _SessionLocal(): TypeError when the global is None
GsMake(t) ==
    /\ At(t, "gs_make")
    /\ IF dbSessionLocal = <<NoFactory>>
       THEN dbRequest' = [dbRequest EXCEPT ![t].pc = "done", ![t].error = "TypeError"]
       ELSE dbRequest' = [dbRequest EXCEPT ![t].pc = "body", ![t].session = "open"]
    /\ UNCHANGED <<dbEngine, dbSessionLocal, DbOthers>>

\* yield session: the body of the with block returns or raises
GsBody(t) ==
    /\ At(t, "body")
    /\ \E raises \in BOOLEAN :
          dbRequest' = [dbRequest EXCEPT ![t].raised = raises,
                           ![t].pc = IF raises THEN "except" ELSE "finally"]
    /\ UNCHANGED <<dbEngine, dbSessionLocal, DbOthers>>

\* except Exception: session.rollback(); raise
GsExcept(t) ==
    /\ At(t, "except")
    /\ dbRequest' = [dbRequest EXCEPT ![t].rolled_back = TRUE, ![t].pc = "finally"]
    /\ UNCHANGED <<dbEngine, dbSessionLocal, DbOthers>>

\* finally: session.close()
GsFinally(t) ==
    /\ At(t, "finally")
    /\ dbRequest' = [dbRequest EXCEPT ![t].session = "closed", ![t].pc = "done"]
    /\ UNCHANGED <<dbEngine, dbSessionLocal, DbOthers>>

NextDb ==
    \E t \in Threads :
        \/ DbArrive(t) \/ GsCheck(t) \/ GeCheck(t) \/ GeCreate(t) \/ GeFactory(t)
        \/ GsMake(t) \/ GsBody(t) \/ GsExcept(t) \/ GsFinally(t)

SpecDb == InitDb /\ [][NextDb]_vars

\* ================================================================ claims
\* The physical lines of a text: text.split("\r\n").
PhysicalLines(s) ==
    LET cuts == {i \in 1..(Len(s) - 1) : s[i] = CR /\ s[i + 1] = LF}
        n == Cardinality(cuts)
        cut(k) == IF k = 0 THEN -1
                  ELSE IF k = n + 1 THEN Len(s) + 1
                  ELSE CHOOSE i \in cuts : Cardinality({j \in cuts : j < i}) = k - 1
    IN  [k \in 1..(n + 1) |-> SubSeq(s, cut(k - 1) + 2, cut(k) - 1)]

\* A folded line with the first character of every continuation line removed.
Unfolded(phys) ==
    Concat([i \in 1..Len(phys) |-> IF i = 1 THEN phys[i] ELSE Tail(phys[i])])

RECURSIVE Unescape(_)
\* RFC 5545 3.3.11 read backwards: \\ -> backslash, \; -> ;, \, -> comma,
\* \n and \N -> newline; anything else is kept as it stands.
Unescape(s) ==
    IF s = <<>> THEN <<>>
    ELSE IF Head(s) = BSL /\ Len(s) >= 2 /\ s[2] \in {BSL, ";", ",", "n", "N"}
         THEN <<(IF s[2] \in {"n", "N"} THEN LF ELSE s[2])>>
                  \o Unescape(SubSeq(s, 3, Len(s)))
         ELSE <<Head(s)>> \o Unescape(Tail(s))

\* A text with every CRLF pair and every lone CR turned into LF.
NormalizeNewlines(s) == Replace(Replace(s, CRLF, <<LF>>), <<CR>>, <<LF>>)

\* C6 as stated: unescaping the escaped text gives back the original text,
\* for every text over backslash, semicolon, comma, CR, LF and letters.
C6_EscapeRoundTrip ==
    escResult # NotRun => Unescape(escResult) = escValue

\* C6 amended: unescaping the escaped text gives back the original text with
\* every CRLF pair and every lone CR replaced by LF (so the original itself
\* when it holds no CR); backslashes being escaped first, no inserted
\* backslash is escaped again.
C6_EscapeRoundTripUpToNewlines ==
    escResult # NotRun => Unescape(escResult) = NormalizeNewlines(escValue)

\* A text with a backslash, a semicolon and a newline has been escaped.
C6_Witness ==
    /\ escValue = <<BSL, ";", LF>>
    /\ escResult = <<BSL, BSL, BSL, ";", BSL, "n">>

\* C7: every physical line of a folded line has at most 75 characters, every
\* continuation line starts with the one inserted space, deleting each
\* inserted CRLF+space gives back the logical line, and the loop ends: each
\* pass shortens `line` by limit - 1 characters.
C7_FoldingInvariant ==
    /\ foldPc = "loop" =>
          Len(foldLine) + Len(foldOut) * (FOLD_LIMIT - 1) = Len(foldInput)
    /\ foldPc = "done" =>
          LET phys == PhysicalLines(foldResult)
          IN  /\ \A i \in 1..Len(phys) : Len(phys[i]) <= 75
              /\ \A i \in 2..Len(phys) : Len(phys[i]) >= 1 /\ phys[i][1] = SP
              /\ Unfolded(phys) = foldInput
              /\ Len(foldResult) = Len(foldInput) + 3 * (Len(phys) - 1)
              /\ Len(phys) = 1 <=> Len(foldInput) <= 75

\* A line of 150 characters with a space right after the first fold point has
\* been folded into three physical lines.
C7_Witness ==
    /\ foldPc = "done"
    /\ Len(foldInput) = 150
    /\ foldInput[76] = SP
    /\ Len(PhysicalLines(foldResult)) = 3

\* The lines of a document: its physical lines without the empty piece that
\* follows the closing CRLF.
DocLines(doc) ==
    LET phys == PhysicalLines(doc)
    IN  IF phys[Len(phys)] = <<>> THEN SubSeq(phys, 1, Len(phys) - 1) ELSE phys

\* The logical lines of a document: every continuation line (a physical line
\* that starts with a space) joined to the line it continues.
LogicalLines(doc) ==
    LET phys == DocLines(doc)
        heads == {i \in 1..Len(phys) : ~StartsWith(phys[i], <<SP>>)}
        n == Cardinality(heads)
        head(k) == IF k = n + 1 THEN Len(phys) + 1
                   ELSE CHOOSE i \in heads : Cardinality({j \in heads : j < i}) = k - 1
    IN  [k \in 1..n |->
            Concat([j \in 1..(head(k + 1) - head(k)) |->
                       IF j = 1 THEN phys[head(k)] ELSE Tail(phys[head(k) + j - 1])])]

EvRendered == evDoc # NotRun /\ evDoc # RaisedDoc
EvLines == IF EvRendered THEN LogicalLines(evDoc) ELSE <<>>
HasLine(lines, l) == \E i \in 1..Len(lines) : lines[i] = l
HasPrefix(lines, p) == \E i \in 1..Len(lines) : StartsWith(lines[i], p)
EvAllDay == evRow.is_all_day /\ evRow.start_at # NoneTime
DTSTART_DATE == <<"D", "T", "S", "T", "A", "R", "T", ";", "V", "A", "L", "U", "E", "=", "D", "A", "T", "E", ":">>
DTEND_DATE == <<"D", "T", "E", "N", "D", ";", "V", "A", "L", "U", "E", "=", "D", "A", "T", "E", ":">>
\* YYYYMMDD of a calendar date
Ymd(d) == Pad(d.y, 4) \o Pad(d.m, 2) \o Pad(d.d, 2)

\* The all-day mapping read off the logical lines of a rendered row.
AllDayMapped(lines) ==
    /\ EvAllDay =>
          /\ HasLine(lines, DTSTART_DATE \o Ymd(evRow.start_at))
          /\ HasLine(lines, DTEND_DATE \o
                Ymd(IF evRow.end_at # NoneTime THEN evRow.end_at
                    ELSE NextDay(evRow.start_at)))
    /\ (HasPrefix(lines, DTSTART_DATE) \/ HasPrefix(lines, DTEND_DATE))
          => evRow.is_all_day

\* C8: an all-day row with a start is rendered with DTSTART;VALUE=DATE the
\* date of start_at and DTEND;VALUE=DATE the date of end_at, or the day after
\* the start date when end_at is None; only all-day rows get date values.
C8_AllDayMapping ==
    evDoc # NotRun => LET lines == EvLines IN AllDayMapped(lines)

\* The all-day mapping on every row whose rendering does not raise.
AllDayMappingWhenRendered ==
    EvRendered => LET lines == EvLines IN AllDayMapped(lines)

\* An all-day row starting 2025-12-15 without end has DTEND 20251216.
AllDayExampleRendered ==
    /\ EvRendered /\ EvAllDay /\ evRow.end_at = NoneTime
    /\ LET lines == EvLines
       IN  /\ HasLine(lines, DTSTART_DATE \o <<"2", "0", "2", "5", "1", "2", "1", "5">>)
           /\ HasLine(lines, DTEND_DATE \o <<"2", "0", "2", "5", "1", "2", "1", "6">>)

\* C9: a row with a non-empty recurrence_rules list is rendered with exactly
\* one RRULE line, "RRULE:" followed character for character by the first
\* rule without its leading "RRULE:"; no RRULE line for an empty or None list.
C9_RRuleVerbatim ==
    EvRendered =>
        LET lines == EvLines
            rr == {i \in 1..Len(lines) : StartsWith(lines[i], RRULE_PREFIX)}
        IN  IF TruthyList(evRow.recurrence_rules)
            THEN /\ Cardinality(rr) = 1
                 /\ \A i \in rr :
                       lines[i] = RRULE_PREFIX
                           \o RemovePrefix(evRow.recurrence_rules[1], RRULE_PREFIX)
            ELSE rr = {}

\* C10: the document starts with BEGIN:VCALENDAR, ends with END:VCALENDAR and
\* a CRLF, has no CR or LF inside a line, and between the seven header lines
\* and the footer holds one BEGIN:VEVENT ... END:VEVENT block per event, in
\* the order of the events, one after the other.
C10_DocumentStructure ==
    calDoc # NotRun =>
        LET lines == DocLines(calDoc)
            n == Len(lines)
            k == Len(calEvents)
            begins == {i \in 1..n : lines[i] = BEGIN_VEVENT}
            ends == {i \in 1..n : lines[i] = END_VEVENT}
            nth(S, j) == CHOOSE i \in S : Cardinality({x \in S : x < i}) = j - 1
        IN  /\ Len(calDoc) >= 2
            /\ SubSeq(calDoc, Len(calDoc) - 1, Len(calDoc)) = CRLF
            /\ \A i \in 1..n : \A c \in 1..Len(lines[i]) : lines[i][c] \notin {CR, LF}
            /\ lines[1] = BEGIN_VCALENDAR
            /\ lines[n] = END_VCALENDAR
            /\ Cardinality(begins) = k
            /\ Cardinality(ends) = k
            /\ \A j \in 1..k :
                  /\ nth(begins, j) < nth(ends, j)
                  /\ j < k => nth(ends, j) + 1 = nth(begins, j + 1)
                  /\ lines[nth(begins, j) + 1] =
                        <<"U", "I", "D", ":">> \o _escape_ical_text(calEvents[j].uid)
            /\ k > 0 => nth(begins, 1) = Len(HeaderLines(PRODID, CALNAME)) + 1
            /\ k > 0 => nth(ends, k) = n - 1
            /\ k = 0 => n = Len(HeaderLines(PRODID, CALNAME)) + 1

\* Three events, the second with a folded line, have been rendered.
C10_Witness ==
    /\ calDoc # NotRun
    /\ Len(calEvents) = 3
    /\ calEvents[1].uid # calEvents[2].uid
    /\ calEvents[2].summary = LongTitle
    /\ \E i \in 1..Len(DocLines(calDoc)) : StartsWith(DocLines(calDoc)[i], <<SP>>)

\* What the request of SpecRequest fetched and computed.
RqFetch == Fetch(rqTable, RequestNow, rqRequest.args)
RqAnswered == rqResponse # NoResponse
\* v is missing or is not the fingerprint, on the canonical path
RqMustRedirect ==
    rqRequest.canonical /\ ArgsGet(rqRequest.args, "v") # RqFetch.etag
\* How many pairs of a query string satisfy a test.
PairCount(qs, p) == Cardinality({i \in 1..Len(qs) : qs[i] = p})
KeyCount(qs, key) == Cardinality({i \in 1..Len(qs) : qs[i][1] = key})
IsRedirectToCanonical ==
    /\ rqResponse.status = 302
    /\ rqResponse.location # NoLocation
    /\ rqResponse.location.base_url = CANONICAL_PATH
    /\ KeyCount(rqResponse.location.query, "v") = 1
    /\ PairCount(rqResponse.location.query, <<"v", RqFetch.etag>>) = 1
    /\ StartsWith(rqResponse.cache_control, <<"n", "o", "-", "s", "t", "o", "r", "e">>)

\* C1 as stated: a canonical request whose v is missing or stale is answered
\* 302 to the canonical path with v=<fingerprint> merged into the query, every
\* other query parameter of the request preserved, and no-store.
C1_RedirectPreservesQuery ==
    (RqAnswered /\ RqMustRedirect) =>
        /\ IsRedirectToCanonical
        /\ \A i \in 1..Len(rqRequest.args) :
              rqRequest.args[i][1] # "v" =>
                  PairCount(rqResponse.location.query, rqRequest.args[i])
                      = PairCount(rqRequest.args, rqRequest.args[i])
        /\ \A i \in 1..Len(rqResponse.location.query) :
              rqResponse.location.query[i][1] # "v" =>
                  PairCount(rqRequest.args, rqResponse.location.query[i]) >= 1

\* C1 amended: such a request is answered 302 to the canonical path, no-store,
\* with v=<fingerprint> in the query and every other parameter name of the
\* request kept once, with the first of its values.
C1_RedirectKeepsFirstValues ==
    (RqAnswered /\ RqMustRedirect) =>
        /\ IsRedirectToCanonical
        /\ \A i \in 1..Len(rqRequest.args) :
              LET key == rqRequest.args[i][1]
              IN  key # "v" =>
                      /\ KeyCount(rqResponse.location.query, key) = 1
                      /\ PairCount(rqResponse.location.query,
                                   <<key, ArgsGet(rqRequest.args, key)>>) = 1
        /\ \A i \in 1..Len(rqResponse.location.query) :
              rqResponse.location.query[i][1] # "v" =>
                  KeyCount(rqRequest.args, rqResponse.location.query[i][1]) >= 1

\* A canonical request with a stale v, a limit and another parameter has been
\* redirected.
C1_Witness ==
    /\ RqAnswered
    /\ rqRequest.canonical
    /\ rqRequest.args = << <<"v", STALE>>, <<"x", <<"1">>>> >>
    /\ rqResponse.status = 302
    /\ rqResponse.location.query = << <<"v", RqFetch.etag>>, <<"x", <<"1">>>> >>

C5_LimitClamped ==
    RqAnswered =>
        LET raw == ArgsGet(rqRequest.args, "limit")
        IN  /\ raw = NoneText => RqFetch.limit = 2000
            /\ (raw # NoneText /\ IsIntText(raw)) =>
                  RqFetch.limit = (IF IntOf(raw) > 10000 THEN 10000
                                   ELSE IF IntOf(raw) < 1 THEN 1 ELSE IntOf(raw))
            /\ rqResponse.status \in {200, 302, 304}
            /\ Len(RqFetch.rows) <= RqFetch.limit
            /\ rqResponse.status = 200 => Len(rqResponse.body) <= RqFetch.limit

\* limit=0 against a table of three rows has fetched one row.
C5_Witness ==
    /\ RqAnswered
    /\ Cardinality(rqTable) = 3
    /\ ArgsGet(rqRequest.args, "limit") = <<"0">>
    /\ rqResponse.status = 200
    /\ Len(rqResponse.body) = 1

BothFetched == prevFetch # NoFetch /\ lastFetch # NoFetch

\* C3: two fetches with the same row count and the same maximum updated_at
\* (none for an empty fetch) have the same ETag, and two that differ in
\* either have different ETags.
C3_FingerprintStability ==
    BothFetched =>
        ((prevFetch.count = lastFetch.count
              /\ prevFetch.max_updated = lastFetch.max_updated)
            <=> prevFetch.etag = lastFetch.etag)

\* C4: two feed requests with the same limit that fetch different lists of
\* rows have different fingerprints.
C4_FingerprintDetectsChange ==
    (BothFetched /\ prevFetch.limit = lastFetch.limit
        /\ prevFetch.rows # lastFetch.rows)
      => prevFetch.etag # lastFetch.etag

\* The same when neither fetch was cut by the limit.
FingerprintDetectsChangeUncut ==
    (BothFetched /\ prevFetch.limit = lastFetch.limit
        /\ prevFetch.count < prevFetch.limit /\ lastFetch.count < lastFetch.limit
        /\ prevFetch.rows # lastFetch.rows)
      => prevFetch.etag # lastFetch.etag

\* Fingerprint stability on fetches that are not empty.
FingerprintStabilityNonEmpty ==
    (BothFetched /\ prevFetch.count > 0 /\ lastFetch.count > 0) =>
        ((prevFetch.count = lastFetch.count
              /\ prevFetch.max_updated = lastFetch.max_updated)
            <=> prevFetch.etag = lastFetch.etag)

\* The lines of the single VEVENT block of a rendered row, without its
\* BEGIN and END lines.
EvBlock(lines) ==
    LET b == CHOOSE i \in 1..Len(lines) : lines[i] = BEGIN_VEVENT
        e == CHOOSE i \in 1..Len(lines) : lines[i] = END_VEVENT
    IN  SubSeq(lines, b + 1, e - 1)
\* The property name of a line: what precedes its first ":" or ";".
NameEnd(line) ==
    IF \E i \in 1..Len(line) : line[i] \in {":", ";"}
    THEN CHOOSE i \in 1..Len(line) :
             line[i] \in {":", ";"} /\ \A j \in 1..(i - 1) : line[j] \notin {":", ";"}
    ELSE Len(line) + 1
PropName(line) == SubSeq(line, 1, NameEnd(line) - 1)
\* The value of a line: what follows its first ":".
PropValue(line) ==
    IF \E i \in 1..Len(line) : line[i] = ":"
    THEN SubSeq(line,
                (CHOOSE i \in 1..Len(line) :
                     line[i] = ":" /\ \A j \in 1..(i - 1) : line[j] # ":") + 1,
                Len(line))
    ELSE <<>>
NameCount(lines, name) == Cardinality({i \in 1..Len(lines) : PropName(lines[i]) = name})
Once(lines, name, present) == NameCount(lines, name) = (IF present THEN 1 ELSE 0)

\* C11: the block of a rendered row holds exactly one UID, one DTSTAMP and
\* one DTSTART line; DTEND, SUMMARY, DESCRIPTION, LOCATION, STATUS, TRANSP,
\* URL and RRULE each appear once when the event's value is neither None nor
\* empty and not at all otherwise; no line has an empty value.
C11_PerEventEmission ==
    EvRendered =>
        LET lines == EvBlock(EvLines)
            e == calendar_event_to_ics_event(evRow)
        IN  /\ NameCount(lines, <<"U", "I", "D">>) = 1
            /\ NameCount(lines, <<"D", "T", "S", "T", "A", "M", "P">>) = 1
            /\ NameCount(lines, <<"D", "T", "S", "T", "A", "R", "T">>) = 1
            /\ Once(lines, <<"D", "T", "E", "N", "D">>, e.dtend # NoneTime)
            /\ Once(lines, <<"S", "U", "M", "M", "A", "R", "Y">>,
                    e.summary # NoneText /\ e.summary # <<>>)
            /\ Once(lines, <<"D", "E", "S", "C", "R", "I", "P", "T", "I", "O", "N">>,
                    e.description # NoneText /\ e.description # <<>>)
            /\ Once(lines, <<"L", "O", "C", "A", "T", "I", "O", "N">>,
                    e.location # NoneText /\ e.location # <<>>)
            /\ Once(lines, <<"S", "T", "A", "T", "U", "S">>, e.status # NoneText /\ e.status # <<>>)
            /\ Once(lines, <<"T", "R", "A", "N", "S", "P">>, e.transp # NoneText /\ e.transp # <<>>)
            /\ Once(lines, <<"U", "R", "L">>, e.url # NoneText /\ e.url # <<>>)
            /\ Once(lines, <<"R", "R", "U", "L", "E">>, e.rrule # NoneText /\ e.rrule # <<>>)
            /\ \A i \in 1..Len(lines) : PropValue(lines[i]) # <<>>

\* A row with an empty title, a description, an empty html_link and a
\* web_link has been rendered with DESCRIPTION and URL and without SUMMARY.
C11_Witness ==
    /\ EvRendered
    /\ evRow.title = <<>> /\ evRow.description = <<"x">>
    /\ evRow.html_link = <<>> /\ evRow.web_link = <<"u">>
    /\ evRow.recurrence_rules = <<<<"R", "R", "U", "L", "E", ":">>>>
    /\ LET lines == EvBlock(EvLines)
       IN  /\ HasLine(lines, <<"D", "E", "S", "C", "R", "I", "P", "T", "I", "O", "N", ":", "x">>)
           /\ HasLine(lines, <<"U", "R", "L", ":", "u">>)
           /\ NameCount(lines, <<"S", "U", "M", "M", "A", "R", "Y">>) = 0
           /\ NameCount(lines, <<"R", "R", "U", "L", "E">>) = 0

\* The value of the only line of that name.
ValueOf(lines, name) ==
    PropValue(lines[CHOOSE i \in 1..Len(lines) : PropName(lines[i]) = name])
StartFallsBack(lines) ==
    /\ NameCount(lines, <<"D", "T", "S", "T", "A", "R", "T">>) = 1
    /\ HasPrefix(lines, <<"D", "T", "S", "T", "A", "R", "T", ":">>)
    /\ ValueOf(lines, <<"D", "T", "S", "T", "A", "R", "T">>) = ValueOf(lines, <<"D", "T", "S",
        "T", "A", "M", "P">>)

\* C12: every row, whichever of its optional columns are None and whatever
\* its is_all_day, is rendered as a VEVENT block without an exception, and a
\* row without start_at gets a DTSTART instant equal to its DTSTAMP.
C12_GracefulDegradation ==
    evDoc # NotRun =>
        /\ evDoc # RaisedDoc
        /\ LET lines == EvLines
           IN  /\ HasLine(lines, BEGIN_VEVENT)
               /\ HasLine(lines, END_VEVENT)
               /\ evRow.start_at = NoneTime => StartFallsBack(EvBlock(lines))

\* The fallback on every row that has no start_at.
StartFallbackWhenMissing ==
    (evDoc # NotRun /\ evRow.start_at = NoneTime) =>
        /\ EvRendered
        /\ LET lines == EvLines IN StartFallsBack(EvBlock(lines))

PatchDone == patchResult # NotPatched
\* The conversion of the local time is tried and fails.
ConversionFails(local, tz) ==
    /\ PyTruthy(PayloadGet(patchPayload, local))
    /\ PyTruthy(PayloadGet(patchPayload, tz))
    /\ ~Converts(patchPayload[local], patchPayload[tz])
\* The payload's absolute instants, where given, are None or well formed.
AbsoluteWellFormed ==
    \A key \in {"start_at", "end_at"} :
        key \in DOMAIN patchPayload =>
            patchPayload[key] \in InstantTexts \cup {PyNone}
\* The instant is the one the payload gives, or else the one stored before.
InstantKept(at) ==
    patchResult.event[at] =
        IF at \in DOMAIN patchPayload
        THEN (IF patchPayload[at] = PyNone THEN NoInstant
              ELSE InstantOf(patchPayload[at]))
        ELSE patchEvent[at]
LabelKept(tz) == patchResult.event[tz] = patchEvent[tz]

\* C13: when the conversion of start_local/start_timezone (or of
\* end_local/end_timezone) fails, apply_patch raises nothing, the timezone
\* label keeps the value stored before, and start_at (or end_at) keeps the
\* value stored before unless the payload gives it as an absolute instant,
\* which is then applied.
C13_FailedConversionLeavesRecord ==
    (PatchDone /\ AbsoluteWellFormed) =>
        /\ ConversionFails("start_local", "start_timezone") =>
              /\ ~patchResult.raised
              /\ InstantKept("start_at")
              /\ LabelKept("start_timezone")
        /\ ConversionFails("end_local", "end_timezone") =>
              /\ ~patchResult.raised
              /\ InstantKept("end_at")
              /\ LabelKept("end_timezone")

\* The same without the timezone labels.
FailedConversionLeavesInstant ==
    (PatchDone /\ AbsoluteWellFormed) =>
        /\ ConversionFails("start_local", "start_timezone") =>
              ~patchResult.raised /\ InstantKept("start_at")
        /\ ConversionFails("end_local", "end_timezone") =>
              ~patchResult.raised /\ InstantKept("end_at")

\* C14: a client that asks for the canonical path and follows every 302,
\* with no event created, patched or deleted meanwhile, is given a 200 or a
\* 304 after at most one redirect, whatever the table holds.
C14_RedirectConvergence == redirects <= 1

\* The same when the request fetched at least one row.
RedirectConvergenceNonEmpty ==
    (lastFetch # NoFetch /\ lastFetch.count > 0) => redirects <= 1

\* The value of the date-valued line of that prefix, as YYYYMMDD digits.
DateValue(lines, prefix) ==
    LET line == lines[CHOOSE i \in 1..Len(lines) : StartsWith(lines[i], prefix)]
    IN  SubSeq(line, Len(prefix) + 1, Len(line))
\* YYYYMMDD as a number
YmdNumber(digits) == DigitsValue(digits)

\* C15: an all-day row with a start_at, with or without end_at, is rendered
\* with a DTEND;VALUE=DATE date strictly later than its DTSTART;VALUE=DATE
\* date.
C15_ExclusiveEnd ==
    (evDoc # NotRun /\ EvAllDay) =>
        /\ EvRendered
        /\ LET lines == EvLines
           IN  /\ HasPrefix(lines, DTSTART_DATE)
               /\ HasPrefix(lines, DTEND_DATE)
               /\ YmdNumber(DateValue(lines, DTEND_DATE))
                      > YmdNumber(DateValue(lines, DTSTART_DATE))

\* The same for the rendered all-day rows whose end_at is None or falls on a
\* later date than start_at.
ExclusiveEndWhenEndLater ==
    (EvRendered /\ EvAllDay
        /\ (evRow.end_at = NoneTime
               \/ YmdNumber(Ymd(evRow.end_at)) > YmdNumber(Ymd(evRow.start_at)))) =>
        LET lines == EvLines
        IN  YmdNumber(DateValue(lines, DTEND_DATE))
                > YmdNumber(DateValue(lines, DTSTART_DATE))

\* A request that opened a session and is over has closed it, after a
\* rollback if its body raised.
SessionSettled(t) ==
    (dbRequest[t].pc = "done" /\ dbRequest[t].session # "none") =>
        /\ dbRequest[t].session = "closed"
        /\ dbRequest[t].raised => dbRequest[t].rolled_back

\* C16: whatever the interleaving of the first calls of get_session and
\* get_engine, no get_session finds the session factory None when it calls
\* it, and every session opened is closed when its request ends, rolled back
\* first if the request raised.
C16_LazyInitSafe ==
    \A t \in Threads :
        /\ dbRequest[t].error # "TypeError"
        /\ SessionSettled(t)

\* Every session opened is closed, rolled back first if the request raised.
SessionsSettled == \A t \in Threads : SessionSettled(t)

\* One request alone never finds the factory None.
LazyInitSafeAlone ==
    (\A t \in Threads : t # 1 => dbRequest[t].pc = "idle") =>
        dbRequest[1].error # "TypeError"

=============================================================================
